---- MODULE Spec2Model ----
(***************************************************************************)
(* Model of the backend slice of fibonacci-farm: JWT issuance and          *)
(* verification, current-user resolution and the admin gate                *)
(* (backend/app/security.py), the User entity's email normalisation and    *)
(* unique index (backend/app/models/user.py) and the engine / session      *)
(* lifecycle (backend/app/db.py).                                          *)
(*                                                                         *)
(* Strings are sequences of one-character strings, so that strip() and     *)
(* lower() are computed rather than assumed.  Time is in whole seconds,    *)
(* the resolution of the exp claim.                                        *)
(***************************************************************************)
EXTENDS Integers, Sequences, FiniteSets

VARIABLES
    now,                \* the wall clock, seconds
    token,              \* the bearer token being presented
    issued,             \* the create_access_token call that made `token`, if any
    res,                \* outcome of the last security.py call
    users,              \* the rows of table "users"
    wres,               \* outcome of the last write to "users"
    engine,             \* db.engine: id of the current engine
    AsyncSessionLocal,  \* db.AsyncSessionLocal: id of the engine it is bound to
    engines,            \* every engine made so far: id -> [url, gen, idle, out]
    sessions,           \* the open AsyncSessions
    reqs,               \* the requests: slot -> [pc, sid, tok, status]; tok is
                        \* held while the user lookup is awaited
    next_sid,           \* AsyncSessions constructed so far
    reset,              \* the reset_engine coroutine
    probe               \* the check_database coroutine

authVars == <<now, token, issued, res>>
userVars == <<users, wres>>
dbVars == <<engine, AsyncSessionLocal, engines, sessions, reqs, next_sid, reset, probe>>
vars == <<now, token, issued, res, users, wres,
          engine, AsyncSessionLocal, engines, sessions, reqs, next_sid, reset,
          probe>>

----------------------------------------------------------------------------
(* Bounds of the model *)

\* longest raw email written to the table
MaxLen == 3
\* most rows the table holds
MaxUsers == 2
\* the clock stops here
MaxTime == 3612
\* request slots
NumRequests == 2
\* reset_engine calls
MaxResets == 1
\* check_database calls
MaxProbes == 1

----------------------------------------------------------------------------
(* Settings (config.py) *)

database_url == "postgresql+asyncpg://algobench"
jwt_secret == "secret"
jwt_algorithm == "HS256"
access_token_expire_minutes == 60
default_leeway_seconds == 10
HTTP_401_UNAUTHORIZED == 401
HTTP_403_FORBIDDEN == 403

----------------------------------------------------------------------------
(* str.strip() and str.lower() over a small alphabet *)

Chars == {"a", "A", " "}

Strings(n) == UNION {[1..k -> Chars] : k \in 0..n}

lower_char(c) == IF c = "A" THEN "a" ELSE c

str_lower(s) == [i \in 1..Len(s) |-> lower_char(s[i])]

RECURSIVE str_lstrip(_)
str_lstrip(s) ==
    IF s # <<>> /\ Head(s) = " " THEN str_lstrip(Tail(s)) ELSE s

RECURSIVE str_rstrip(_)
str_rstrip(s) ==
    IF s # <<>> /\ s[Len(s)] = " "
    THEN str_rstrip(SubSeq(s, 1, Len(s) - 1))
    ELSE s

str_strip(s) == str_rstrip(str_lstrip(s))

----------------------------------------------------------------------------
(* The user entity (models/user.py) and the repository *)

\* UserRole
UserRole == {"user", "admin"}

\* `None` where a User is expected
NoUser == [id |-> 0, email |-> <<>>, role |-> "none", is_active |-> FALSE]

\* UserRepository.get_by_email: the row whose email column equals `email`
get_by_email(store, email) ==
    IF \E u \in store : u.email = email
    THEN CHOOSE u \in store : u.email = email
    ELSE NoUser

\* value.lower() with the strip() forgotten
_lower_email_no_strip(value) == str_lower(value)

\* User._lower_email, the @validates("email") hook run on every assignment
_lower_email(value) == str_lower(str_strip(value))

\* Index("uq_users_email_lower", func.lower(email), unique=True): would a row
\* `id` holding `email` collide with another row
uq_users_email_lower(store, id, email) ==
    \E u \in store : u.id # id /\ str_lower(u.email) = str_lower(email)

\* User(email=..., role=..., is_active=...) with default=uuid.uuid4
User(id, email, role, is_active) ==
    [id |-> id, email |-> _lower_email(email), role |-> role,
     is_active |-> is_active]

----------------------------------------------------------------------------
(* JWT helpers (security.py) *)

\* what a caller of security.py gets: a value, or the HTTPException raised
Returned(sub, user) ==
    [ok |-> TRUE, status |-> 200, detail |-> "", sub |-> sub, user |-> user]

HTTPException(status_code, detail) ==
    [ok |-> FALSE, status |-> status_code, detail |-> detail,
     sub |-> <<>>, user |-> NoUser]

\* jose.jwt.encode: a token is its header, its claims and the key that signed it
jwt_encode(claims, key, algorithm) ==
    [key |-> key, alg |-> algorithm, malformed |-> FALSE,
     has_sub |-> TRUE, sub |-> claims.sub,
     has_exp |-> TRUE, exp |-> claims.exp]

\* `expires_delta or timedelta(minutes=...)`: None and timedelta(0) are falsy
expire_at(has_delta, expires_delta, t) ==
    t + (IF has_delta /\ expires_delta # 0
         THEN expires_delta
         ELSE 60 * access_token_expire_minutes)

create_access_token(subject, has_delta, expires_delta, t) ==
    jwt_encode([sub |-> subject, exp |-> expire_at(has_delta, expires_delta, t)],
               jwt_secret, jwt_algorithm)

\* jose.jwt.decode with options verify_exp: the payload, or JWTError.
\* An exp claim is checked only when the token carries one.
jwt_decode(tok, key, algorithms, leeway, t) ==
    IF tok.malformed THEN [err |-> TRUE, has_sub |-> FALSE, sub |-> <<>>]
    ELSE IF tok.alg \notin algorithms
        THEN [err |-> TRUE, has_sub |-> FALSE, sub |-> <<>>]
    ELSE IF tok.key # key
        THEN [err |-> TRUE, has_sub |-> FALSE, sub |-> <<>>]
    ELSE IF tok.has_exp /\ tok.exp < t - leeway
        THEN [err |-> TRUE, has_sub |-> FALSE, sub |-> <<>>]
    ELSE [err |-> FALSE, has_sub |-> tok.has_sub, sub |-> tok.sub]

\* algorithms left open: any header algorithm is accepted
decode_access_token_any_alg(tok, leeway_seconds, t) ==
    LET payload == jwt_decode(tok, jwt_secret, {"HS256", "RS256"},
                              leeway_seconds, t)
    IN  IF payload.err
        THEN HTTPException(HTTP_401_UNAUTHORIZED, "Could not validate credentials")
        ELSE IF ~payload.has_sub \/ payload.sub = <<>>
        THEN HTTPException(HTTP_401_UNAUTHORIZED, "Invalid token payload")
        ELSE Returned(payload.sub, NoUser)

\* `if not email`: None and "" are both falsy
decode_access_token(tok, leeway_seconds, t) ==
    LET payload == jwt_decode(tok, jwt_secret, {jwt_algorithm}, leeway_seconds, t)
    IN  IF payload.err
        THEN HTTPException(HTTP_401_UNAUTHORIZED, "Could not validate credentials")
        ELSE IF ~payload.has_sub \/ payload.sub = <<>>
        THEN HTTPException(HTTP_401_UNAUTHORIZED, "Invalid token payload")
        ELSE Returned(payload.sub, NoUser)

----------------------------------------------------------------------------
(* Current user helpers (security.py) *)

\* the is_active check left out
get_current_user_no_active_check(tok, store, t) ==
    LET decoded == decode_access_token(tok, default_leeway_seconds, t)
        user == get_by_email(store, decoded.sub)
    IN  IF ~decoded.ok THEN decoded
        ELSE IF user = NoUser
        THEN HTTPException(HTTP_401_UNAUTHORIZED, "User not found")
        ELSE Returned(decoded.sub, user)

get_current_user(tok, store, t) ==
    LET decoded == decode_access_token(tok, default_leeway_seconds, t)
        user == get_by_email(store, decoded.sub)
    IN  IF ~decoded.ok THEN decoded
        ELSE IF user = NoUser
        THEN HTTPException(HTTP_401_UNAUTHORIZED, "User not found")
        ELSE IF ~user.is_active
        THEN HTTPException(HTTP_403_FORBIDDEN, "User is inactive")
        ELSE Returned(decoded.sub, user)

\* the role compared with the enum's name in another case: never equal
get_current_admin_wrong_literal(current_user) ==
    IF current_user.role # "ADMIN"
    THEN HTTPException(HTTP_403_FORBIDDEN, "Admin privileges required")
    ELSE Returned(current_user.email, current_user)

get_current_admin(current_user) ==
    IF current_user.role # "admin"
    THEN HTTPException(HTTP_403_FORBIDDEN, "Admin privileges required")
    ELSE Returned(current_user.email, current_user)

\* Depends(get_current_user) then get_current_admin: the gate runs only on a
\* user that get_current_user returned
admin_dependency(tok, store, t) ==
    LET current == get_current_user(tok, store, t)
    IN  IF ~current.ok THEN current ELSE get_current_admin(current.user)

----------------------------------------------------------------------------
(* Inputs *)

\* subjects put into tokens
Subjects == {<<>>, <<"a">>, <<"b">>}

\* expires_delta arguments, seconds
Deltas == {-1, 0, 1}

\* leeway_seconds arguments
Leeways == {0, default_leeway_seconds}

\* the instants the clock is read at: around issuance, around exp + leeway
\* of a short-lived token, and around exp + leeway of a default-lived one
Times ==
    {t \in {0, 1, 9, 10, 11,
            60 * access_token_expire_minutes,
            60 * access_token_expire_minutes + default_leeway_seconds,
            60 * access_token_expire_minutes + default_leeway_seconds + 1,
            MaxTime} : t <= MaxTime}

\* tokens that did not come from create_access_token: any key, any header
\* algorithm, with or without sub and exp
PresentedTokens ==
    {tok \in [key : {jwt_secret, "other"}, alg : {"HS256", "RS256"},
              malformed : BOOLEAN, has_sub : BOOLEAN, sub : {<<>>, <<"a">>},
              has_exp : BOOLEAN, exp : {0, 5}] :
        /\ (~tok.has_sub => tok.sub = <<>>)
        /\ (~tok.has_exp => tok.exp = 0)
        /\ (tok.has_exp => tok.exp = 5)
        /\ (tok.malformed =>
                tok.key = "other" /\ ~tok.has_sub /\ ~tok.has_exp
                /\ tok.alg = "HS256")}

\* the rows of "users" the security.py calls run against
AuthStores ==
    {sa \cup sb :
        sa \in {{}} \cup {{[id |-> 1, email |-> <<"a">>, role |-> r,
                           is_active |-> act]} :
                            r \in UserRole, act \in BOOLEAN},
        sb \in {{}, {[id |-> 2, email |-> <<"b">>, role |-> "admin",
                      is_active |-> TRUE]}}}

\* arguments of a direct get_current_admin call
AnyUsers ==
    [id : {1}, email : {<<"a">>}, role : UserRole, is_active : BOOLEAN]

NoIssue ==
    [valid |-> FALSE, subject |-> <<>>, has_delta |-> FALSE, delta |-> 0, at |-> 0]

NoRes ==
    [op |-> "none", leeway |-> 0, arg |-> NoUser, out |-> HTTPException(0, "")]

NoWrite == [ok |-> FALSE, id |-> 0, key |-> <<>>, changed |-> FALSE]

----------------------------------------------------------------------------
(* The security.py calls *)

Tick(t) ==
    /\ t > now
    /\ now' = t
    /\ res' = NoRes
    /\ UNCHANGED <<token, issued, userVars, dbVars>>

CreateAccessToken(subject, has_delta, delta) ==
    /\ token' = create_access_token(subject, has_delta, delta, now)
    /\ issued' = [valid |-> TRUE, subject |-> subject, has_delta |-> has_delta,
                  delta |-> delta, at |-> now]
    /\ res' = NoRes
    /\ UNCHANGED <<now, userVars, dbVars>>

PresentToken(tok) ==
    /\ token' = tok
    /\ issued' = NoIssue
    /\ res' = NoRes
    /\ UNCHANGED <<now, userVars, dbVars>>

DecodeAccessToken(leeway) ==
    /\ res' = [op |-> "decode_access_token", leeway |-> leeway, arg |-> NoUser,
               out |-> decode_access_token(token, leeway, now)]
    /\ UNCHANGED <<now, token, issued, userVars, dbVars>>

GetCurrentUser ==
    /\ res' = [op |-> "get_current_user", leeway |-> default_leeway_seconds,
               arg |-> NoUser, out |-> get_current_user(token, users, now)]
    /\ UNCHANGED <<now, token, issued, userVars, dbVars>>

GetCurrentAdmin(u) ==
    /\ res' = [op |-> "get_current_admin", leeway |-> 0, arg |-> u,
               out |-> get_current_admin(u)]
    /\ UNCHANGED <<now, token, issued, userVars, dbVars>>

AdminRequest ==
    /\ res' = [op |-> "admin_dependency", leeway |-> default_leeway_seconds,
               arg |-> NoUser, out |-> admin_dependency(token, users, now)]
    /\ UNCHANGED <<now, token, issued, userVars, dbVars>>

----------------------------------------------------------------------------
(* Writes to "users" *)

\* what is kept of a write: whether it went through, the row, the email a
\* caller would look the row up by (the raw email trimmed and lower-cased) and
\* whether that differs from the raw email
Written(ok, id, raw) ==
    [ok |-> ok, id |-> id, key |-> str_lower(str_strip(raw)),
     changed |-> raw # str_lower(str_strip(raw))]

\* session.add(User(...)); flush: the unique index rejects a colliding row
CreateUser(raw, role, is_active) ==
    /\ Cardinality(users) < MaxUsers
    /\ LET row == User(Cardinality(users) + 1, raw, role, is_active)
       IN  IF uq_users_email_lower(users, row.id, row.email)
           THEN /\ users' = users
                /\ wres' = Written(FALSE, row.id, raw)
           ELSE /\ users' = users \cup {row}
                /\ wres' = Written(TRUE, row.id, raw)
    /\ UNCHANGED <<authVars, dbVars>>

\* user.email = raw; flush
AssignEmail(u, raw) ==
    /\ u \in users
    /\ LET email == _lower_email(raw)
       IN  IF uq_users_email_lower(users, u.id, email)
           THEN /\ users' = users
                /\ wres' = Written(FALSE, u.id, raw)
           ELSE /\ users' = (users \ {u}) \cup {[u EXCEPT !.email = email]}
                /\ wres' = Written(TRUE, u.id, raw)
    /\ UNCHANGED <<authVars, dbVars>>

----------------------------------------------------------------------------
(* Engine and session factory (db.py) *)

\* _make_engine: `url or settings.database_url`; "" stands for None.  A new
\* engine has an empty pool.
_make_engine(url) ==
    [url |-> IF url = "" THEN database_url ELSE url,
     gen |-> 1, idle |-> 0, out |-> 0]

\* the pool of engine e hands out a connection: an idle one, else a new one
pool_checkout(engs, e) ==
    [engs EXCEPT ![e].out = @ + 1, ![e].idle = IF @ > 0 THEN @ - 1 ELSE 0]

\* a connection of pool generation g is given back: a healthy one stays open
\* in its pool, one whose operation failed or was cancelled is closed; a pool
\* the engine has discarded is no longer the engine's
pool_checkin(engs, e, g, healthy) ==
    IF engs[e].gen = g
    THEN [engs EXCEPT ![e].out = @ - 1,
                      ![e].idle = IF healthy THEN @ + 1 ELSE @]
    ELSE engs

\* AsyncEngine.dispose(): close the idle connections and start a fresh pool;
\* connections checked out stay open and leave the engine
engine_dispose(engs, e) ==
    [engs EXCEPT ![e].gen = @ + 1, ![e].idle = 0, ![e].out = 0]

NoToken == CHOOSE tok \in PresentedTokens : tok.malformed

IdleRequest == [pc |-> "idle", sid |-> 0, tok |-> NoToken, status |-> 0]

SessionOf(r) == CHOOSE s \in sessions : s.sid = reqs[r].sid

\* `async with` replaced by a close() after the yield: reached on return only
session_close_on_return_only(r) ==
    LET s == SessionOf(r)
    IN  IF reqs[r].status = 200
        THEN /\ sessions' = sessions \ {s}
             /\ engines' = IF s.conn
                           THEN pool_checkin(engines, s.eng, s.gen, TRUE)
                           ELSE engines
        ELSE UNCHANGED <<sessions, engines>>

\* AsyncSession.close(): the connection, if one was taken, goes back to the pool
session_close(r) ==
    LET s == SessionOf(r)
    IN  /\ sessions' = sessions \ {s}
        /\ engines' = IF s.conn
                      THEN pool_checkin(engines, s.eng, s.gen,
                                        reqs[r].status # 499)
                      ELSE engines

\* get_session up to its yield: `async with AsyncSessionLocal() as session`.
\* The slots are taken in the order the requests arrive.
GetSession(r) ==
    /\ reqs[r].pc = "idle"
    /\ \A q \in 1..(r - 1) : reqs[q].pc # "idle"
    /\ next_sid' = next_sid + 1
    /\ sessions' = sessions \cup
            {[sid |-> next_sid + 1, eng |-> AsyncSessionLocal, gen |-> 0,
              conn |-> FALSE, epoch |-> reset.n]}
    /\ reqs' = [reqs EXCEPT ![r] = [@ EXCEPT !.pc = "session",
                                             !.sid = next_sid + 1]]
    /\ UNCHANGED <<authVars, userVars, engine, AsyncSessionLocal, engines,
                   reset, probe>>

\* get_current_user up to `await repo.get_by_email(email)`: a bad token raises
\* at once, a good one sends the query, for which the session takes a
\* connection from the pool of its engine (or fails to)
UserDecode(r, tok, db_up) ==
    /\ reqs[r].pc = "session"
    /\ LET decoded == decode_access_token(tok, default_leeway_seconds, now)
           s == SessionOf(r)
       IN  IF ~decoded.ok
           THEN /\ reqs' = [reqs EXCEPT ![r] = [@ EXCEPT !.pc = "exiting",
                                    !.status = decoded.status]]
                /\ UNCHANGED <<sessions, engines>>
           ELSE IF ~db_up
           THEN /\ reqs' = [reqs EXCEPT ![r] = [@ EXCEPT !.pc = "exiting",
                                    !.status = 500]]
                /\ UNCHANGED <<sessions, engines>>
           ELSE /\ reqs' = [reqs EXCEPT ![r] = [@ EXCEPT !.pc = "lookup",
                                    !.tok = tok]]
                /\ sessions' = (sessions \ {s}) \cup
                        {[s EXCEPT !.conn = TRUE, !.gen = engines[s.eng].gen]}
                /\ engines' = pool_checkout(engines, s.eng)
    /\ UNCHANGED <<authVars, userVars, engine, AsyncSessionLocal, next_sid,
                   reset, probe>>

\* the rest of get_current_user, and the endpoint after it
UserLookup(r) ==
    /\ reqs[r].pc = "lookup"
    /\ reqs' = [reqs EXCEPT ![r] = [@ EXCEPT !.pc = "exiting", !.tok = NoToken,
                    !.status = get_current_user(reqs[r].tok, users, now).status]]
    /\ UNCHANGED <<authVars, userVars, engine, AsyncSessionLocal, engines,
                   sessions, next_sid, reset, probe>>

\* the request's task is cancelled at one of its awaits
CancelRequest(r) ==
    /\ reqs[r].pc \in {"session", "lookup"}
    /\ reqs' = [reqs EXCEPT ![r] = [@ EXCEPT !.pc = "exiting", !.tok = NoToken,
                                             !.status = 499]]
    /\ UNCHANGED <<authVars, userVars, engine, AsyncSessionLocal, engines,
                   sessions, next_sid, reset, probe>>

\* get_session after its yield: the `async with` block is left, by return,
\* by the exception thrown into the generator or by cancellation
ExitSession(r) ==
    /\ reqs[r].pc = "exiting"
    /\ session_close(r)
    /\ reqs' = [reqs EXCEPT ![r] = [@ EXCEPT !.pc = "done"]]
    /\ UNCHANGED <<authVars, userVars, engine, AsyncSessionLocal, next_sid,
                   reset, probe>>

----------------------------------------------------------------------------
(* reset_engine (db.py) *)

\* `await engine.dispose()`: the coroutine may be suspended here
ResetDispose(new_url) ==
    /\ reset.pc = "idle"
    /\ reset.n < MaxResets
    /\ engines' = engine_dispose(engines, engine)
    /\ reset' = [reset EXCEPT !.pc = "disposed", !.url = new_url]
    /\ UNCHANGED <<authVars, userVars, engine, AsyncSessionLocal, sessions,
                   reqs, next_sid, probe>>

\* engine = _make_engine(new_url); AsyncSessionLocal = async_sessionmaker(...)
ResetInstall ==
    /\ reset.pc = "disposed"
    /\ engines' = Append(engines, _make_engine(reset.url))
    /\ engine' = Len(engines) + 1
    /\ AsyncSessionLocal' = Len(engines) + 1
    /\ reset' = [reset EXCEPT !.pc = "idle", !.n = @ + 1]
    /\ UNCHANGED <<authVars, userVars, sessions, reqs, next_sid, probe>>

----------------------------------------------------------------------------
(* check_database (db.py) *)

IdleProbe ==
    [pc |-> "idle", eng |-> 0, gen |-> 0, conn |-> FALSE, acquired |-> FALSE,
     queried |-> FALSE, timed_out |-> FALSE, raised |-> FALSE,
     result |-> "none", epoch |-> 0, n |-> 0]

\* check_database is called: _ping starts on `engine.connect()`
ProbeStart ==
    /\ probe.pc \in {"idle", "done"}
    /\ probe.n < MaxProbes
    /\ probe' = [IdleProbe EXCEPT !.pc = "connecting", !.eng = engine,
                                  !.epoch = reset.n, !.n = probe.n]
    /\ UNCHANGED <<authVars, userVars, engine, AsyncSessionLocal, engines,
                   sessions, reqs, next_sid, reset>>

\* engine.connect() returns a connection, or raises
ProbeConnect(db_up) ==
    /\ probe.pc = "connecting"
    /\ IF db_up
       THEN /\ probe' = [probe EXCEPT !.pc = "querying", !.conn = TRUE,
                            !.acquired = TRUE, !.gen = engines[probe.eng].gen]
            /\ engines' = pool_checkout(engines, probe.eng)
       ELSE /\ probe' = [probe EXCEPT !.pc = "leaving", !.raised = TRUE]
            /\ UNCHANGED engines
    /\ UNCHANGED <<authVars, userVars, engine, AsyncSessionLocal, sessions,
                   reqs, next_sid, reset>>

\* conn.execute(text("SELECT 1")) returns, or raises
ProbeQuery(db_up) ==
    /\ probe.pc = "querying"
    /\ probe' = [probe EXCEPT !.pc = "leaving", !.queried = db_up,
                              !.raised = ~db_up]
    /\ UNCHANGED <<authVars, userVars, engine, AsyncSessionLocal, engines,
                   sessions, reqs, next_sid, reset>>

\* asyncio.wait_for: the timeout elapses before _ping is over, and _ping is
\* cancelled at the await it is in: connecting, querying, or giving the
\* connection back
ProbeTimeout ==
    /\ probe.pc \in {"connecting", "querying", "leaving"}
    /\ ~probe.timed_out
    /\ probe' = [probe EXCEPT !.pc = "leaving", !.timed_out = TRUE,
                              !.raised = TRUE]
    /\ UNCHANGED <<authVars, userVars, engine, AsyncSessionLocal, engines,
                   sessions, reqs, next_sid, reset>>

\* `except asyncio.TimeoutError` in place of `except Exception`
probe_result_timeout_only(p) ==
    IF ~p.raised THEN "True" ELSE IF p.timed_out THEN "False" ELSE "raise"

\* what check_database does once _ping is over: return True, or return False
\* from `except Exception`, which catches the driver's errors and TimeoutError
probe_result(p) == IF ~p.raised THEN "True" ELSE "False"

\* whether leaving `async with engine.connect() as conn` gives the connection back
probe_releases(p) == p.conn

\* _ping leaves its `async with` block (the connection goes back), wait_for
\* returns or raises, and check_database returns
ProbeReturn ==
    /\ probe.pc = "leaving"
    /\ engines' = IF probe_releases(probe)
                  THEN pool_checkin(engines, probe.eng, probe.gen,
                                    ~probe.raised)
                  ELSE engines
    /\ probe' = [probe EXCEPT !.pc = "done",
                              !.conn = IF probe_releases(probe) THEN FALSE ELSE @,
                              !.result = probe_result(probe), !.n = @ + 1]
    /\ UNCHANGED <<authVars, userVars, engine, AsyncSessionLocal, sessions,
                   reqs, next_sid, reset>>

----------------------------------------------------------------------------
(* Specifications *)

\* db.py as imported: one engine on settings.database_url, nothing in flight
InitDb ==
    /\ engine = 1
    /\ AsyncSessionLocal = 1
    /\ engines = <<_make_engine("")>>
    /\ sessions = {}
    /\ reqs = [r \in 1..NumRequests |-> IdleRequest]
    /\ next_sid = 0
    /\ reset = [pc |-> "idle", url |-> "", n |-> 0]
    /\ probe = IdleProbe

Init ==
    /\ now = 0
    /\ token = CHOOSE tok \in PresentedTokens : tok.malformed
    /\ issued = NoIssue
    /\ res = NoRes
    /\ users \in AuthStores
    /\ wres = NoWrite
    /\ InitDb

Next ==
    \/ \E t \in Times : Tick(t)
    \/ \E s \in Subjects, hd \in BOOLEAN, d \in Deltas :
            (hd \/ d = 0) /\ CreateAccessToken(s, hd, d)
    \/ \E tok \in PresentedTokens : PresentToken(tok)
    \/ \E l \in Leeways : DecodeAccessToken(l)
    \/ GetCurrentUser
    \/ \E u \in AnyUsers : GetCurrentAdmin(u)
    \/ AdminRequest

Spec == Init /\ [][Next]_vars

InitUsers ==
    /\ now = 0
    /\ token = CHOOSE tok \in PresentedTokens : tok.malformed
    /\ issued = NoIssue
    /\ res = NoRes
    /\ users = {}
    /\ wres = NoWrite
    /\ InitDb

NextUsers ==
    \/ \E raw \in Strings(MaxLen) : CreateUser(raw, "user", TRUE)
    \/ \E u \in users, raw \in Strings(MaxLen) : AssignEmail(u, raw)

SpecUsers == InitUsers /\ [][NextUsers]_vars

\* new_url arguments of reset_engine; "" is None
NewUrls == {"", "postgresql+asyncpg://testdb"}

\* tokens the requests carry: for an active user, for an inactive one, for
\* nobody, and one that does not verify
RequestTokens ==
    {create_access_token(<<"a">>, FALSE, 0, 0),
     create_access_token(<<"b">>, FALSE, 0, 0),
     create_access_token(<<"A">>, FALSE, 0, 0),
     NoToken}

RequestStore ==
    {[id |-> 1, email |-> <<"a">>, role |-> "user", is_active |-> TRUE],
     [id |-> 2, email |-> <<"b">>, role |-> "admin", is_active |-> FALSE]}

InitRequests ==
    /\ now = 0
    /\ token = NoToken
    /\ issued = NoIssue
    /\ res = NoRes
    /\ users = RequestStore
    /\ wres = NoWrite
    /\ InitDb

RequestSteps ==
    \/ \E r \in 1..NumRequests : GetSession(r)
    \/ \E r \in 1..NumRequests, tok \in RequestTokens, db_up \in BOOLEAN :
            UserDecode(r, tok, db_up)
    \/ \E r \in 1..NumRequests : UserLookup(r)
    \/ \E r \in 1..NumRequests : CancelRequest(r)
    \/ \E r \in 1..NumRequests : ExitSession(r)

ResetSteps ==
    \/ \E url \in NewUrls : ResetDispose(url)
    \/ ResetInstall

ProbeSteps ==
    \/ ProbeStart
    \/ \E db_up \in BOOLEAN : ProbeConnect(db_up)
    \/ \E db_up \in BOOLEAN : ProbeQuery(db_up)
    \/ ProbeTimeout
    \/ ProbeReturn

\* requests against an engine that may be reset under them
NextRequests == RequestSteps \/ ResetSteps

SpecRequests == InitRequests /\ [][NextRequests]_vars

\* health probes against an engine that may be reset under them
NextHealth == ProbeSteps \/ ResetSteps

SpecHealth == InitRequests /\ [][NextHealth]_vars

\* requests, probes and resets together
NextDb == RequestSteps \/ ProbeSteps \/ ResetSteps

SpecDb == InitRequests /\ [][NextDb]_vars

----------------------------------------------------------------------------
(* Properties *)

\* the rows of `store` whose email is `email`
Matching(store, email) == {u \in store : u.email = email}

\* C1: get_current_user returns a user only when the token decodes to a
\* subject, a row with that email exists and the row is active; otherwise it
\* raises 401 for a bad token, 401 for no row, 403 for an inactive row, in
\* that order.  A returned user is always a stored, active row.
C1_CurrentUserGate ==
    res.op = "get_current_user" =>
        LET decoded == decode_access_token(token, default_leeway_seconds, now)
            found == Matching(users, decoded.sub)
            out == res.out
        IN  /\ ~decoded.ok =>
                ~out.ok /\ out.status = 401 /\ out.user = NoUser
            /\ decoded.ok /\ found = {} =>
                ~out.ok /\ out.status = 401 /\ out.user = NoUser
            /\ decoded.ok /\ found # {} /\ (\A u \in found : ~u.is_active) =>
                ~out.ok /\ out.status = 403 /\ out.user = NoUser
            /\ decoded.ok /\ (\E u \in found : u.is_active) =>
                out.ok /\ out.user \in found
            /\ out.ok => out.user \in users /\ out.user.is_active

\* C1 witness: a good token for an inactive user was refused with 403
C1_Witness ==
    /\ res.op = "get_current_user"
    /\ decode_access_token(token, default_leeway_seconds, now).ok
    /\ \E u \in users : u.email = token.sub /\ ~u.is_active
    /\ res.out.status = 403

\* C2: decoding a token right after create_access_token(s, ttl), ttl > 0,
\* returns s, for every s including the empty string
C2_RoundTrip ==
    (/\ res.op = "decode_access_token"
     /\ issued.valid /\ issued.has_delta /\ issued.delta > 0
     /\ issued.at = now)
    => res.out.ok /\ res.out.sub = issued.subject

\* what C3 requires of a token at time t under a leeway
Signed(tok) == tok.key = jwt_secret
AlgorithmMatches(tok) == tok.alg = jwt_algorithm
NotExpired(tok, leeway, t) == tok.has_exp => t <= tok.exp + leeway
WellFormed(tok) == ~tok.malformed
Acceptable(tok, leeway, t) ==
    /\ WellFormed(tok)
    /\ Signed(tok)
    /\ AlgorithmMatches(tok)
    /\ NotExpired(tok, leeway, t)
    /\ tok.has_sub

\* C3: decode_access_token returns a subject only for a well-formed token
\* signed with the configured secret, of the configured algorithm, not past
\* exp + leeway and carrying sub; when any of these fails it raises 401.  A
\* token issued with ttl = -1 is refused at every time after exp + leeway.
C3_DecodeRejects ==
    res.op = "decode_access_token" =>
        /\ res.out.ok =>
            Acceptable(token, res.leeway, now) /\ res.out.sub = token.sub
        /\ ~Acceptable(token, res.leeway, now) =>
            ~res.out.ok /\ res.out.status = 401
        /\ (/\ issued.valid /\ issued.has_delta /\ issued.delta = -1
            /\ now > token.exp + res.leeway)
            => ~res.out.ok /\ res.out.status = 401

\* C3 witness: a token issued with ttl = -1 was refused after its leeway ran out
C3_Witness ==
    /\ res.op = "decode_access_token"
    /\ res.leeway = default_leeway_seconds
    /\ issued.valid /\ issued.has_delta /\ issued.delta = -1
    /\ now > token.exp + res.leeway
    /\ ~res.out.ok

\* C4: the exp claim is the issuance time plus ttl for every ttl supplied,
\* and the issuance time plus the configured minutes when none is supplied
C4_ExpIsIssuancePlusTtl ==
    issued.valid =>
        /\ token.has_exp
        /\ token.exp = issued.at +
                (IF issued.has_delta THEN issued.delta
                 ELSE 60 * access_token_expire_minutes)

\* C5: what get_current_user raises for a good token whose subject has no
\* row (status and detail) is what it raises for a token that does not verify
C5_NoUserEnumeration ==
    (/\ res.op = "get_current_user"
     /\ decode_access_token(token, default_leeway_seconds, now).ok
     /\ Matching(users, token.sub) = {})
    => \A bad \in PresentedTokens :
            ~decode_access_token(bad, default_leeway_seconds, now).ok =>
                LET other == get_current_user(bad, users, now)
                IN  /\ other.status = res.out.status
                    /\ other.detail = res.out.detail

\* C6: get_current_admin returns the user it is given exactly when the role is
\* admin, and raises 403 otherwise; behind get_current_user, only a token
\* whose subject is a stored, active admin gets through
C6_AdminGate ==
    /\ res.op = "get_current_admin" =>
        /\ res.out.ok <=> res.arg.role = "admin"
        /\ res.out.ok => res.out.user = res.arg
        /\ ~res.out.ok => res.out.status = 403
    /\ res.op = "admin_dependency" /\ res.out.ok =>
        /\ decode_access_token(token, default_leeway_seconds, now).ok
        /\ \E u \in users :
            /\ u.email = token.sub
            /\ u.is_active
            /\ u.role = "admin"
            /\ res.out.user = u

\* C6 witness: an admin-gated request got through
C6_Witness ==
    /\ res.op = "admin_dependency"
    /\ res.out.ok
    /\ res.out.user.role = "admin"

InFlight(r) == reqs[r].pc \in {"session", "lookup", "exiting"}

\* C7: every request in flight has a session of its own, no two share one,
\* a request that has ended has no session left open whatever way it ended,
\* and once all have ended no session is open
C7_SessionPerRequest ==
    /\ \A r \in 1..NumRequests :
        InFlight(r) => Cardinality({s \in sessions : s.sid = reqs[r].sid}) = 1
    /\ \A r1, r2 \in 1..NumRequests :
        r1 # r2 /\ InFlight(r1) /\ InFlight(r2) => reqs[r1].sid # reqs[r2].sid
    /\ \A r \in 1..NumRequests :
        reqs[r].pc = "done" => \A s \in sessions : s.sid # reqs[r].sid
    /\ (\A r \in 1..NumRequests : ~InFlight(r)) => sessions = {}

\* C7 witness: one request ended on the 403 of get_current_user, another was
\* cancelled, and both sessions are gone
C7_Witness ==
    /\ \E r1, r2 \in 1..NumRequests :
        /\ reqs[r1].pc = "done" /\ reqs[r1].status = 403
        /\ reqs[r2].pc = "done" /\ reqs[r2].status = 499
    /\ sessions = {}
    /\ next_sid = 2

\* C8: check_database ends with True or False and never raises; True exactly
\* when the connection was acquired, the query succeeded and the timeout did
\* not elapse first; and the connection it took is back in the pool
C8_ProbeBoolean ==
    probe.pc = "done" =>
        /\ probe.result \in {"True", "False"}
        /\ probe.result = "True" <=>
            (probe.acquired /\ probe.queried /\ ~probe.timed_out)
        /\ ~probe.conn
        /\ \A e \in 1..Len(engines) : engines[e].out = 0

\* C8 witness: the timeout ran out during the query, the probe said False
\* and holds no connection
C8_Witness ==
    /\ probe.pc = "done"
    /\ probe.acquired /\ ~probe.queried /\ probe.timed_out
    /\ probe.result = "False"

\* the trimmed, lower-cased form of an email
Normal(email) == str_lower(str_strip(email))

\* C9: every stored email is its own trimmed, lower-cased form, no two rows
\* have emails equal up to case, a rejected write leaves the table as it
\* was, and a row written with a raw email is found under the normal form
C9_EmailNormalised ==
    /\ [](/\ \A u \in users : u.email = Normal(u.email)
          /\ \A u, v \in users :
                u # v => str_lower(u.email) # str_lower(v.email)
          /\ wres.ok => get_by_email(users, wres.key).id = wres.id)
    /\ [][~wres'.ok => users' = users]_vars

\* C9 witness: a second row was written with an email that was not in normal
\* form, such as "A ", and is found under the normal form, "a"
C9_Witness ==
    /\ wres.ok
    /\ wres.changed
    /\ wres.key = <<"a">>
    /\ get_by_email(users, <<"a">>).id = wres.id
    /\ Cardinality(users) = 2

\* the url an engine made for `new_url` is bound to
UrlFor(new_url) == IF new_url = "" THEN database_url ELSE new_url

\* C10: once reset_engine is over and every session and probe is released,
\* no replaced engine holds an open connection; and every session or probe
\* started after a reset is bound to the engine that reset installed
C10_NoLeakAcrossReset ==
    /\ (/\ reset.n >= 1 /\ reset.pc = "idle"
        /\ sessions = {}
        /\ ~probe.conn)
        => \A e \in 1..Len(engines) :
                e # engine => engines[e].idle = 0 /\ engines[e].out = 0
    /\ \A s \in sessions :
        s.epoch >= 1 /\ s.epoch = reset.n =>
            s.eng = engine /\ engines[s.eng].url = UrlFor(reset.url)
    /\ (probe.pc # "idle" /\ probe.epoch >= 1 /\ probe.epoch = reset.n) =>
            probe.eng = engine /\ engines[probe.eng].url = UrlFor(reset.url)

====
